---- MODULE Spec2Model ----
(***************************************************************************)
(* Model of src/eproc_scraper.py: the EProcScraper pipeline                *)
(* (realizar_busca, extrair_dados_processos, processar_nome,               *)
(* processar_todos_nomes, salvar_resultados, fechar) and main.             *)
(*                                                                         *)
(* The browser is modelled by the document it currently shows.  A document *)
(* is named by the navigation that produced it: [k, r, t, n] is the page   *)
(* of pass k (the k-th name of the list), reached through the anchor of    *)
(* row r whose text is t, at depth n (0 query form, 1 results page,        *)
(* 2 page of a result link, 3 page of the case).  Every element reference  *)
(* remembers the document it was found in; Selenium raises                 *)
(* StaleElementReferenceException when an element of another document is   *)
(* used.                                                                   *)
(***************************************************************************)
EXTENDS Naturals, Sequences, FiniteSets, TLC

\* ------------------------------------------------------------------ bounds
MaxNomes == 2
MaxLinhas == 2
MaxElems == 4
MaxDivs == 2
MaxElemsCapa == 2

\* ------------------------------------------------------- program constants
NOMES_CONSULTA == <<"ADILSON DA SILVA", "RICARDO DE JESUS">>

\* Names a caller may submit, and texts an anchor of the results table shows.
Nomes == {"ADILSON DA SILVA", "RICARDO DE JESUS"}
Textos == Nomes \cup {"OUTRO NOME"}

\* Sequences over S of length at most n.
SeqAte(S, n) == UNION {[1..m -> S] : m \in 0..n}

\* self.resultados = {} and processo_info = {}: the empty dict.
DictVazio == [c \in {} |-> ""]

\* dict[c] = v: insert or overwrite.
DictPut(d, c, v) == [x \in (DOMAIN d) \cup {c} |-> IF x = c THEN v ELSE d[x]]

\* ---------------------------------------------------------------- documents
NenhumDoc == [k |-> 0, r |-> 0, t |-> "", n |-> 0]
DocConsulta(k) == [k |-> k, r |-> 0, t |-> "", n |-> 0]
DocResultado(k) == [k |-> k, r |-> 0, t |-> "", n |-> 1]

\* The target of the anchor of row p of a table of document d.
Destino(d, p, t) ==
    IF d.n = 1 THEN [k |-> d.k, r |-> p, t |-> t, n |-> 2]
    ELSE [k |-> d.k, r |-> d.r, t |-> d.t, n |-> 3]

\* Element references that are not bound to any element yet.
SemElemento == [doc |-> NenhumDoc, tipo |-> "nenhum", texto |-> "", href |-> NenhumDoc]

\* The rows a table of document d may hold at position p: a row without a
\* td (header), a row whose td has no anchor, a row whose td has an anchor.
LinhasDe(d, p) ==
    {[doc |-> d, tipo |-> "cabecalho", texto |-> "", href |-> NenhumDoc],
     [doc |-> d, tipo |-> "sem_ancora", texto |-> "", href |-> NenhumDoc]}
    \cup
    {[doc |-> d, tipo |-> "ancora", texto |-> t, href |-> Destino(d, p, t)] :
        t \in (IF d.n = 1 THEN Textos ELSE {"0001"})}

\* An element of another document than the current one is stale.
Obsoleto(el, atual) == el.doc # atual

\* ---------------------------------------------------- elements of a block
Elementos ==
    {[tag |-> "label", text |-> "Classe"], [tag |-> "label", text |-> "Assunto"],
     [tag |-> "label", text |-> "Numero"],
     [tag |-> "span", text |-> "Civel"], [tag |-> "span", text |-> "Contrato"],
     [tag |-> "a", text |-> "ver"]}

\* The field blocks the extractor is run on by itself: every block of at
\* most MaxElems elements alone, and every container of at most MaxDivs
\* blocks of at most MaxElemsCapa labels and spans.
Blocos == SeqAte(Elementos, MaxElems)
BlocosCurtos == SeqAte({e \in Elementos : e.tag # "a" /\ e.text # "Numero"}, MaxElemsCapa)
Capas == {<<b>> : b \in Blocos} \cup SeqAte(BlocosCurtos, MaxDivs)

ParVazio == [chave |-> "", valor |-> ""]

\* --------------------------------------------------------- Results Locator
\* Mutant: the comparison of line 287 is missing, every anchor is collected.
ProcessarLinhaSemFiltro(lks, linha, nome_consultado) ==
    IF linha.tipo = "cabecalho" THEN lks
    ELSE IF linha.tipo = "sem_ancora" THEN lks
    ELSE Append(lks, linha.href)

\* One pass of the row loop of the results table (lines 278-294): a row
\* without td is skipped by the bare except, a td without anchor raises and
\* is skipped, an anchor whose text differs is skipped, a match is appended.
ProcessarLinha(lks, linha, nome_consultado) ==
    IF linha.tipo = "cabecalho" THEN lks
    ELSE IF linha.tipo = "sem_ancora" THEN lks
    ELSE IF linha.texto # nome_consultado THEN lks
    ELSE Append(lks, linha.href)

\* celulas after a row: the row's td when it has one, else what it was.
CelulaApos(cel, linha) == IF linha.tipo = "cabecalho" THEN cel ELSE linha

\* --------------------------------------------------------- Field Extractor
\* Mutant: a span sets valor only while valor is empty (first write wins).
ScanElementoPrimeiroValor(par, el) ==
    IF el.tag = "label" THEN [par EXCEPT !.chave = el.text]
    ELSE IF el.tag = "span" /\ par.valor = "" THEN [par EXCEPT !.valor = el.text]
    ELSE par

\* Lines 328-333: a label sets chave, a span sets valor, others are ignored.
ScanElemento(par, el) ==
    IF el.tag = "label" THEN [par EXCEPT !.chave = el.text]
    ELSE IF el.tag = "span" THEN [par EXCEPT !.valor = el.text]
    ELSE par

RECURSIVE ScanDe(_, _)
ScanDe(par, elements) ==
    IF elements = <<>> THEN par
    ELSE ScanDe(ScanElemento(par, Head(elements)), Tail(elements))

\* Lines 325-333: chave = valor = "" and the scan of the block's descendants.
ScanDiv(elements) == ScanDe(ParVazio, elements)

\* Mutant: the record is rebuilt at every block instead of extended.
CommitDivSubstitui(info, par) == DictPut(DictVazio, par.chave, par.valor)

\* Mutant: a block whose chave is empty is not stored.
CommitDivIgnoraVazio(info, par) ==
    IF par.chave = "" THEN info ELSE DictPut(info, par.chave, par.valor)

\* Line 334: processo_info[chave] = valor.
CommitDiv(info, par) == DictPut(info, par.chave, par.valor)

\* Lines 322-334 for one block.
ExtrairDiv(info, elements) == CommitDiv(info, ScanDiv(elements))

\* ------------------------------------------------------------- the portal
\* The field blocks of the fldAssuntos container of the case page d, as the
\* pipeline runs see them: the case of row r has its own number.
NumeroDe(r) ==
    CASE r = 1 -> "0001" [] r = 2 -> "0002" [] r = 3 -> "0003" [] OTHER -> "0000"

BlocoNumero(r) ==
    <<[tag |-> "label", text |-> "Numero"], [tag |-> "span", text |-> NumeroDe(r)]>>
BlocoClasse ==
    <<[tag |-> "label", text |-> "Classe"], [tag |-> "a", text |-> "ver"],
      [tag |-> "span", text |-> "Civel"]>>
BlocoSemRotulo == <<[tag |-> "span", text |-> "Contrato"]>>

CapaDe(d) ==
    IF d.r = 2 THEN <<BlocoNumero(d.r), BlocoSemRotulo, BlocoClasse>>
    ELSE <<BlocoNumero(d.r), BlocoClasse>>

\* The record a complete extraction of the case page d builds.
RECURSIVE ExtrairCapa(_, _)
ExtrairCapa(info, blocos) ==
    IF blocos = <<>> THEN info
    ELSE ExtrairCapa(ExtrairDiv(info, Head(blocos)), Tail(blocos))

\* -------------------------------------------------------------------- state
VARIABLES
    nomes,          \* the argument of processar_todos_nomes
    idx,            \* position of the loop of processar_todos_nomes
    pc,             \* where the run is
    sessao,         \* the browser session: "nenhuma", "aberta", "fechada"
    doc,            \* the document the session shows
    resultados,     \* self.resultados
    processos,      \* the list extrair_dados_processos is building
    links,          \* links
    li,             \* position of the loop over links
    tabela,         \* the element tabela refers to
    linhas,         \* len(linhas) of the table being enumerated
    lin,            \* position of the loop over linhas
    celulas,        \* the element celulas refers to
    processo_info,  \* the record under construction
    divs,           \* the field blocks found in the container
    di,             \* position of the loop over divs
    dados_saida,    \* the document salvar_resultados wrote
    origem,         \* history: the document each record of processos was read from
    vistas,         \* history: the rows of the results table enumerated so far
    sinal,          \* history: what the results page of this pass showed
    falhas,         \* history: the links of this pass whose extraction raised
    sinais,         \* history: sinal of the pass that stored each entry
    proveniencia,   \* history: origem of the pass that stored each entry
    anterior,       \* history: the entry the last store of a name replaced
    tentados,       \* history: the names processar_nome was called with
    interrompido,   \* history: a KeyboardInterrupt was raised in the run
    saida,          \* history: how the try block of main was left
    quits           \* history: the calls of driver.quit()

vars == <<nomes, idx, pc, sessao, doc, resultados, processos, links, li, tabela,
          linhas, lin, celulas, processo_info, divs, di, dados_saida, origem,
          vistas, sinal, falhas, sinais, proveniencia, anterior, tentados,
          interrompido, saida, quits>>

\* The state of one call of extrair_dados_processos.
locais == <<processos, links, li, tabela, linhas, lin, celulas, processo_info,
            divs, di, origem, vistas, sinal, falhas>>
historia == <<sinais, proveniencia, anterior, tentados>>
principal == <<interrompido, saida, quits>>

nome == nomes[idx]

\* No document written yet.
DadosNenhum ==
    [salvo |-> FALSE, total_processos |-> 0, nomes_consultados |-> <<>>,
     processos |-> DictVazio]

\* The locals of extrair_dados_processos at its entry (line 251).
LocaisNovos ==
    /\ processos' = <<>>
    /\ links' = <<>>
    /\ li' = 1
    /\ tabela' = SemElemento
    /\ linhas' = 0
    /\ lin' = 1
    /\ celulas' = SemElemento
    /\ processo_info' = DictVazio
    /\ divs' = <<>>
    /\ di' = 1
    /\ origem' = <<>>
    /\ vistas' = <<>>
    /\ sinal' = "nenhum"
    /\ falhas' = 0

InitComum ==
    /\ idx = 1
    /\ sessao = "nenhuma"
    /\ doc = NenhumDoc
    /\ resultados = DictVazio
    /\ processos = <<>>
    /\ links = <<>>
    /\ li = 1
    /\ tabela = SemElemento
    /\ linhas = 0
    /\ lin = 1
    /\ celulas = SemElemento
    /\ processo_info = DictVazio
    /\ divs = <<>>
    /\ di = 1
    /\ dados_saida = DadosNenhum
    /\ origem = <<>>
    /\ vistas = <<>>
    /\ sinal = "nenhum"
    /\ falhas = 0
    /\ sinais = DictVazio
    /\ proveniencia = DictVazio
    /\ anterior = DictVazio
    /\ tentados = <<>>
    /\ interrompido = FALSE
    /\ saida = "nenhuma"
    /\ quits = 0

Init ==
    /\ InitComum
    /\ nomes \in SeqAte(Nomes, MaxNomes)
    /\ pc = "main"

\* --------------------------------------------------------------------- main
\* main, line 478: EProcScraper(headless=True) starts the browser session.
CriarScraper ==
    /\ pc = "main"
    /\ sessao' = "aberta"
    /\ pc' = "loop"
    /\ UNCHANGED <<nomes, idx, doc, resultados, locais, dados_saida, historia, principal>>

\* _configurar_driver raises (lines 152-154): main logs it, scraper is None
\* and the finally block has nothing to close.
CriarScraperFalha ==
    /\ pc = "main"
    /\ pc' = "fim"
    /\ saida' = "erro"
    /\ UNCHANGED <<nomes, idx, sessao, doc, resultados, locais, dados_saida, historia,
                   interrompido, quits>>

\* ---------------------------------------------------- processar_todos_nomes
\* Lines 379-383 and 354-357: the next name of the list is taken.
IniciarNome ==
    /\ pc = "loop"
    /\ idx <= Len(nomes)
    /\ tentados' = Append(tentados, nome)
    /\ pc' = "busca"
    /\ UNCHANGED <<nomes, idx, sessao, doc, resultados, locais, dados_saida, sinais,
                   proveniencia, anterior, principal>>

\* Line 390: the list is exhausted; main goes on to salvar_resultados.
FimNomes ==
    /\ pc = "loop"
    /\ idx > Len(nomes)
    /\ pc' = "salvar"
    /\ UNCHANGED <<nomes, idx, sessao, doc, resultados, locais, dados_saida, historia, principal>>

\* ------------------------------------------------------------ realizar_busca
\* Lines 208-235: the form is loaded, filled and submitted; the session
\* shows the results page and extrair_dados_processos is entered.
BuscaOk ==
    /\ pc = "busca"
    /\ doc' = DocResultado(idx)
    /\ pc' = "extrair"
    /\ LocaisNovos
    /\ UNCHANGED <<nomes, idx, sessao, resultados, dados_saida, historia, principal>>

\* realizar_busca returned False: processar_nome returns [] at line 359,
\* before the assignment of line 365, and the loop goes on (line 384).
BuscaFalhou ==
    /\ idx' = idx + 1
    /\ pc' = "loop"
    /\ UNCHANGED <<nomes, sessao, resultados, locais, dados_saida, historia, principal>>

\* Lines 216-219: the name input is not found.
BuscaSemCampo ==
    /\ pc = "busca"
    /\ doc' = DocConsulta(idx)
    /\ BuscaFalhou

\* Lines 226-229: the submit control is not found.
BuscaSemBotao ==
    /\ pc = "busca"
    /\ doc' = DocConsulta(idx)
    /\ BuscaFalhou

\* Lines 237-239: the page load or an element operation raises.
BuscaErro ==
    /\ pc = "busca"
    /\ doc' \in {doc, DocConsulta(idx)}
    /\ BuscaFalhou

\* --------------------------------------------------- extrair_dados_processos
\* Every way the function returns leads to line 365 of processar_nome.
\* return [] at lines 262 and 271.
RetornaVazio(s) ==
    /\ pc' = "retorno"
    /\ processos' = <<>>
    /\ origem' = <<>>
    /\ sinal' = s
    /\ UNCHANGED <<nomes, idx, sessao, doc, resultados, links, li, tabela, linhas,
                   lin, celulas, processo_info, divs, di, dados_saida, vistas,
                   falhas, historia, principal>>

\* Mutant: the return of line 262 is missing, the table is looked up anyway.
SemResultadosSegue ==
    /\ pc = "extrair"
    /\ tabela' = [doc |-> doc, tipo |-> "tabela", texto |-> "", href |-> NenhumDoc]
    /\ linhas' \in 0..MaxLinhas
    /\ lin' = 1
    /\ links' = <<>>
    /\ sinal' = "vazio"
    /\ pc' = "linhas"
    /\ UNCHANGED <<nomes, idx, sessao, doc, resultados, processos, li, celulas,
                   processo_info, divs, di, dados_saida, origem, vistas, falhas,
                   historia, principal>>

\* Lines 258-262: the "no results" label is on the page.
SemResultados ==
    /\ pc = "extrair"
    /\ RetornaVazio("vazio")

\* Mutant: the NoSuchElementException of line 268 is caught by no handler
\* below processar_todos_nomes (386-388), which goes on with the next name:
\* nothing is stored for this one.
SemTabelaPropaga ==
    /\ pc = "extrair"
    /\ sinal' = "sem_tabela"
    /\ idx' = idx + 1
    /\ pc' = "loop"
    /\ UNCHANGED <<nomes, sessao, doc, resultados, processos, links, li, tabela,
                   linhas, lin, celulas, processo_info, divs, di, dados_saida,
                   origem, vistas, falhas, historia, principal>>

\* Lines 267-271: neither the label nor the table.
SemTabela ==
    /\ pc = "extrair"
    /\ RetornaVazio("sem_tabela")

\* Lines 268 and 274-276: the table is found and its rows are listed.
TabelaResultados ==
    /\ pc = "extrair"
    /\ tabela' = [doc |-> doc, tipo |-> "tabela", texto |-> "", href |-> NenhumDoc]
    /\ linhas' \in 0..MaxLinhas
    /\ lin' = 1
    /\ links' = <<>>
    /\ sinal' = "tabela"
    /\ pc' = "linhas"
    /\ UNCHANGED <<nomes, idx, sessao, doc, resultados, processos, li, celulas,
                   processo_info, divs, di, dados_saida, origem, vistas, falhas,
                   historia, principal>>

\* Mutant: a row without td ends the loop (break instead of continue).
EnumerarLinhaInterrompe ==
    /\ pc = "linhas"
    /\ lin <= linhas
    /\ \E linha \in LinhasDe(tabela.doc, lin) :
          /\ links' = ProcessarLinha(links, linha, nome)
          /\ celulas' = CelulaApos(celulas, linha)
          /\ vistas' = Append(vistas, linha)
          /\ lin' = IF linha.tipo = "cabecalho" THEN linhas + 1 ELSE lin + 1
    /\ UNCHANGED <<nomes, idx, pc, sessao, doc, resultados, processos, li, tabela,
                   linhas, processo_info, divs, di, dados_saida, origem, sinal,
                   falhas, historia, principal>>

\* Lines 277-294, one row.
EnumerarLinha ==
    /\ pc = "linhas"
    /\ lin <= linhas
    /\ \E linha \in LinhasDe(tabela.doc, lin) :
          /\ links' = ProcessarLinha(links, linha, nome)
          /\ celulas' = CelulaApos(celulas, linha)
          /\ vistas' = Append(vistas, linha)
    /\ lin' = lin + 1
    /\ UNCHANGED <<nomes, idx, pc, sessao, doc, resultados, processos, li, tabela,
                   linhas, processo_info, divs, di, dados_saida, origem, sinal,
                   falhas, historia, principal>>

\* Line 296: the row loop is over, the loop over links starts.
FimLinhas ==
    /\ pc = "linhas"
    /\ lin > linhas
    /\ li' = 1
    /\ pc' = "links"
    /\ vistas' = <<>>
    /\ UNCHANGED <<nomes, idx, sessao, doc, resultados, processos, links, tabela,
                   linhas, lin, celulas, processo_info, divs, di, dados_saida,
                   origem, sinal, falhas, historia, principal>>

\* Mutant: the links are taken from the last to the first.
AbrirLinkInverso ==
    /\ pc = "links"
    /\ li <= Len(links)
    /\ processo_info' = DictVazio
    /\ doc' = links[Len(links) + 1 - li]
    /\ pc' = "tabela"
    /\ UNCHANGED <<nomes, idx, sessao, resultados, processos, links, li, tabela,
                   linhas, lin, celulas, divs, di, dados_saida, origem, vistas,
                   sinal, falhas, historia, principal>>

\* Lines 296-301: processo_info = {} and the link is loaded.
AbrirLink ==
    /\ pc = "links"
    /\ li <= Len(links)
    /\ processo_info' = DictVazio
    /\ doc' = links[li]
    /\ pc' = "tabela"
    /\ UNCHANGED <<nomes, idx, sessao, resultados, processos, links, li, tabela,
                   linhas, lin, celulas, divs, di, dados_saida, origem, vistas,
                   sinal, falhas, historia, principal>>

\* Lines 337 and 342: every link was handled.
FimLinks ==
    /\ pc = "links"
    /\ li > Len(links)
    /\ pc' = "retorno"
    /\ UNCHANGED <<nomes, idx, sessao, doc, resultados, locais, dados_saida, historia, principal>>

\* Mutant: the handler appends the record under construction before it
\* returns.
ExcecaoAnexa ==
    /\ pc' = "retorno"
    /\ falhas' = falhas + 1
    /\ processos' = Append(processos, processo_info)
    /\ origem' = Append(origem, doc)
    /\ UNCHANGED <<nomes, idx, sessao, doc, resultados, links, li, tabela,
                   linhas, lin, celulas, processo_info, divs, di, dados_saida,
                   vistas, sinal, historia, principal>>

\* Mutant: the exception is caught by no handler below main, whose handler
\* of line 504 ends the run.
ExcecaoPropaga ==
    /\ pc' = "fechar"
    /\ saida' = "erro"
    /\ falhas' = falhas + 1
    /\ UNCHANGED <<nomes, idx, sessao, doc, resultados, processos, links, li, tabela,
                   linhas, lin, celulas, processo_info, divs, di, dados_saida,
                   origem, vistas, sinal, historia, interrompido, quits>>

\* Lines 339-342: an exception inside the loop over links is logged by the
\* handler of the whole function, which returns processos as it is.
Excecao ==
    /\ pc' = "retorno"
    /\ falhas' = falhas + 1
    /\ UNCHANGED <<nomes, idx, sessao, doc, resultados, processos, links, li, tabela,
                   linhas, lin, celulas, processo_info, divs, di, dados_saida,
                   origem, vistas, sinal, historia, principal>>

\* Lines 302-303 and 308: the table of the link's page is found and listed.
TabelaProcessos ==
    /\ pc = "tabela"
    /\ tabela' = [doc |-> doc, tipo |-> "tabela", texto |-> "", href |-> NenhumDoc]
    /\ linhas' \in 0..MaxLinhas
    /\ lin' = 1
    /\ pc' = "detalhe"
    /\ UNCHANGED <<nomes, idx, sessao, doc, resultados, processos, links, li,
                   celulas, processo_info, divs, di, dados_saida, origem, vistas,
                   sinal, falhas, historia, principal>>

\* Lines 304-308: the table is not found; the handler only logs, and line 308
\* lists the rows of the table tabela still refers to.  That element belongs
\* to a document the session left, so find_elements raises.
TabelaAusente ==
    /\ pc = "tabela"
    /\ IF Obsoleto(tabela, doc)
       THEN Excecao
       ELSE /\ linhas' \in 0..MaxLinhas
            /\ lin' = 1
            /\ pc' = "detalhe"
            /\ UNCHANGED <<nomes, idx, sessao, doc, resultados, processos, links,
                           li, tabela, celulas, processo_info, divs, di,
                           dados_saida, origem, vistas, sinal, falhas, historia, principal>>

\* Lines 309-315, one row: celulas is the row's td when it has one.
EnumerarDetalhe ==
    /\ pc = "detalhe"
    /\ lin <= linhas
    /\ \E linha \in LinhasDe(tabela.doc, lin) : celulas' = CelulaApos(celulas, linha)
    /\ lin' = lin + 1
    /\ UNCHANGED <<nomes, idx, pc, sessao, doc, resultados, processos, links, li,
                   tabela, linhas, processo_info, divs, di, dados_saida, origem,
                   vistas, sinal, falhas, historia, principal>>

\* Line 316: the row loop of the link's page is over.
FimDetalhe ==
    /\ pc = "detalhe"
    /\ lin > linhas
    /\ pc' = "processo"
    /\ UNCHANGED <<nomes, idx, sessao, doc, resultados, locais, dados_saida, historia, principal>>

\* Mutant: the target of the last td seen is followed as a plain URL, also
\* when that td is of a document the session left.
AbrirProcessoSemVerificar ==
    /\ pc = "processo"
    /\ celulas.tipo = "ancora"
    /\ doc' = celulas.href
    /\ pc' = "capa"
    /\ UNCHANGED <<nomes, idx, sessao, resultados, locais, dados_saida, historia, principal>>

\* Lines 317-319: the anchor of the last td seen is followed.
AbrirProcesso ==
    /\ pc = "processo"
    /\ ~Obsoleto(celulas, doc)
    /\ celulas.tipo = "ancora"
    /\ doc' = celulas.href
    /\ pc' = "capa"
    /\ UNCHANGED <<nomes, idx, sessao, resultados, locais, dados_saida, historia, principal>>

\* Line 317 raises: celulas is of a document the session left (no row of
\* this table had a td), or its td has no anchor.
ProcessoInacessivel ==
    /\ pc = "processo"
    /\ Obsoleto(celulas, doc) \/ celulas.tipo # "ancora"
    /\ Excecao

\* Lines 320-321: the container is found and its blocks are listed.
LocalizarCapa ==
    /\ pc = "capa"
    /\ divs' = CapaDe(doc)
    /\ di' = 1
    /\ pc' = "divs"
    /\ UNCHANGED <<nomes, idx, sessao, doc, resultados, processos, links, li, tabela,
                   linhas, lin, celulas, processo_info, dados_saida, origem, vistas,
                   sinal, falhas, historia, principal>>

\* Lines 322-334, one block.
ExtrairBloco ==
    /\ pc = "divs"
    /\ di <= Len(divs)
    /\ processo_info' = ExtrairDiv(processo_info, divs[di])
    /\ di' = di + 1
    /\ UNCHANGED <<nomes, idx, pc, sessao, doc, resultados, processos, links, li,
                   tabela, linhas, lin, celulas, divs, dados_saida, origem, vistas,
                   sinal, falhas, historia, principal>>

\* Mutant: the record of a link is appended twice.
AnexarProcessoDuplo ==
    /\ pc = "divs"
    /\ di > Len(divs)
    /\ processos' = Append(Append(processos, processo_info), processo_info)
    /\ origem' = Append(Append(origem, doc), doc)
    /\ li' = li + 1
    /\ pc' = "links"
    /\ UNCHANGED <<nomes, idx, sessao, doc, resultados, links, tabela, linhas, lin,
                   celulas, processo_info, divs, di, dados_saida, vistas, sinal,
                   falhas, historia, principal>>

\* Line 336: the record is appended and the next link is taken.
AnexarProcesso ==
    /\ pc = "divs"
    /\ di > Len(divs)
    /\ processos' = Append(processos, processo_info)
    /\ origem' = Append(origem, doc)
    /\ li' = li + 1
    /\ pc' = "links"
    /\ UNCHANGED <<nomes, idx, sessao, doc, resultados, links, tabela, linhas, lin,
                   celulas, processo_info, divs, di, dados_saida, vistas, sinal,
                   falhas, historia, principal>>

\* Where a browser operation of the loop over links may raise, besides the
\* two cases above: the load of a link (300), the lookups of its page (303,
\* 308), the load of the case (318), the container (320, 321) and the scan
\* of a block (324-331).  The two row loops catch what their bodies raise.
PodeFalhar ==
    \/ pc \in {"tabela", "processo", "capa"}
    \/ pc = "links" /\ li <= Len(links)
    \/ pc = "divs" /\ di <= Len(divs)

FalhaNoLink ==
    /\ PodeFalhar
    /\ Excecao

\* Lines 259-275 raise something else than NoSuchElementException (the
\* session is lost): lines 339-342 return the empty processos.
FalhaNaTabela ==
    /\ pc = "extrair"
    /\ pc' = "retorno"
    /\ sinal' = "erro"
    /\ UNCHANGED <<nomes, idx, sessao, doc, resultados, processos, links, li, tabela,
                   linhas, lin, celulas, processo_info, divs, di, dados_saida,
                   origem, vistas, falhas, historia, principal>>

\* ------------------------------------------------------------ processar_nome
\* Mutant: the list returned is appended to the entry the name already has.
RegistrarAcrescenta ==
    /\ pc = "retorno"
    /\ resultados' = DictPut(resultados, nome,
                             IF nome \in DOMAIN resultados
                             THEN resultados[nome] \o processos
                             ELSE processos)
    /\ sinais' = DictPut(sinais, nome, sinal)
    /\ proveniencia' = DictPut(proveniencia, nome, origem)
    /\ anterior' = IF nome \in DOMAIN resultados
                   THEN DictPut(anterior, nome, resultados[nome])
                   ELSE anterior
    /\ idx' = idx + 1
    /\ pc' = "loop"
    /\ LocaisNovos
    /\ UNCHANGED <<nomes, sessao, doc, dados_saida, tentados, principal>>

\* Lines 362-367 and 384: the list returned is stored under the name, and
\* the locals of extrair_dados_processos are gone.
Registrar ==
    /\ pc = "retorno"
    /\ resultados' = DictPut(resultados, nome, processos)
    /\ sinais' = DictPut(sinais, nome, sinal)
    /\ proveniencia' = DictPut(proveniencia, nome, origem)
    /\ anterior' = IF nome \in DOMAIN resultados
                   THEN DictPut(anterior, nome, resultados[nome])
                   ELSE anterior
    /\ idx' = idx + 1
    /\ pc' = "loop"
    /\ LocaisNovos
    /\ UNCHANGED <<nomes, sessao, doc, dados_saida, tentados, principal>>

\* --------------------------------------------------------- salvar_resultados
\* Lines 408-427.
DadosSaida(res) ==
    [salvo |-> TRUE,
     total_processos |-> Cardinality(DOMAIN res),
     nomes_consultados |-> NOMES_CONSULTA,
     processos |-> res]

Salvar ==
    /\ pc = "salvar"
    /\ dados_saida' = DadosSaida(resultados)
    /\ saida' = "normal"
    /\ pc' = "fechar"
    /\ UNCHANGED <<nomes, idx, sessao, doc, resultados, locais, historia,
                   interrompido, quits>>

\* Lines 429-431 and 504-505: the file cannot be written.
SalvarFalha ==
    /\ pc = "salvar"
    /\ saida' = "erro"
    /\ pc' = "fechar"
    /\ UNCHANGED <<nomes, idx, sessao, doc, resultados, locais, dados_saida, historia,
                   interrompido, quits>>

\* -------------------------------------------------------------------- fechar
\* Lines 507-512 and 448-457: the finally block of main calls fechar, which
\* calls driver.quit() and logs what it raises.
Fechar ==
    /\ pc = "fechar"
    /\ sessao' = "fechada"
    /\ quits' = quits + 1
    /\ pc' = "fim"
    /\ UNCHANGED <<nomes, idx, doc, resultados, locais, dados_saida, historia,
                   interrompido, saida>>

\* --------------------------------------------------------- KeyboardInterrupt
\* A KeyboardInterrupt is no Exception: the handlers of lines 237, 292, 339,
\* 386 and 429 let it pass up to main, which logs it (501-502) and enters
\* its finally block.  The locals of extrair_dados_processos are gone.
Interrupcao ==
    /\ pc \in {"loop", "busca", "extrair", "linhas", "links", "tabela", "detalhe",
               "processo", "capa", "divs", "retorno", "salvar"}
    /\ interrompido' = TRUE
    /\ saida' = "interrupcao"
    /\ pc' = "fechar"
    /\ LocaisNovos
    /\ UNCHANGED <<nomes, idx, sessao, doc, resultados, dados_saida, historia, quits>>

\* Lines 279-284: the interruption is raised inside linha.find_element of
\* the results table; the bare except takes it for a row without td and the
\* loop goes on with the next row.
InterrupcaoNaLinha ==
    /\ pc = "linhas"
    /\ lin <= linhas
    /\ vistas' = Append(vistas, [doc |-> tabela.doc, tipo |-> "cabecalho",
                                 texto |-> "", href |-> NenhumDoc])
    /\ lin' = lin + 1
    /\ interrompido' = TRUE
    /\ UNCHANGED <<nomes, idx, pc, sessao, doc, resultados, processos, links, li,
                   tabela, linhas, celulas, processo_info, divs, di, dados_saida,
                   origem, sinal, falhas, historia, saida, quits>>

\* Lines 310-315: the same inside the row loop of a link's page.
InterrupcaoNoDetalhe ==
    /\ pc = "detalhe"
    /\ lin <= linhas
    /\ lin' = lin + 1
    /\ interrompido' = TRUE
    /\ UNCHANGED <<nomes, idx, pc, sessao, doc, resultados, processos, links, li,
                   tabela, linhas, celulas, processo_info, divs, di, dados_saida,
                   origem, vistas, sinal, falhas, historia, saida, quits>>

\* Line 478: the interruption is raised inside EProcScraper(...), before or
\* after webdriver.Chrome returned (line 147).  scraper is still None, so
\* the finally block (509) closes nothing.
InterrupcaoNaCriacao ==
    /\ pc = "main"
    /\ sessao' \in {"nenhuma", "aberta"}
    /\ interrompido' = TRUE
    /\ saida' = "interrupcao"
    /\ pc' = "fim"
    /\ UNCHANGED <<nomes, idx, doc, resultados, locais, dados_saida, historia, quits>>

\* Lines 507-510 and 453-455: the interruption is raised in the finally
\* block, before driver.quit() is called or inside the call; fechar catches
\* Exception only and main ends with the interruption.
InterrupcaoNoFechar ==
    /\ pc = "fechar"
    /\ \/ /\ quits' = quits
          /\ sessao' = sessao
       \/ /\ quits' = quits + 1
          /\ sessao' \in {"aberta", "fechada"}
    /\ interrompido' = TRUE
    /\ pc' = "fim"
    /\ UNCHANGED <<nomes, idx, doc, resultados, locais, dados_saida, historia, saida>>

Next ==
    \/ CriarScraper \/ CriarScraperFalha
    \/ IniciarNome \/ FimNomes
    \/ BuscaOk \/ BuscaSemCampo \/ BuscaSemBotao \/ BuscaErro
    \/ SemResultados \/ SemTabela \/ TabelaResultados
    \/ EnumerarLinha \/ FimLinhas
    \/ AbrirLink \/ FimLinks
    \/ TabelaProcessos \/ TabelaAusente
    \/ EnumerarDetalhe \/ FimDetalhe
    \/ AbrirProcesso \/ ProcessoInacessivel
    \/ LocalizarCapa \/ ExtrairBloco \/ AnexarProcesso
    \/ FalhaNoLink \/ FalhaNaTabela
    \/ Registrar
    \/ Salvar \/ SalvarFalha
    \/ Fechar
    \/ Interrupcao \/ InterrupcaoNaLinha \/ InterrupcaoNoDetalhe
    \/ InterrupcaoNaCriacao \/ InterrupcaoNoFechar

Spec == Init /\ [][Next]_vars

\* ------------------------------------------------- the extractor by itself
\* The loop over the blocks (lines 322-336) on the case page of the only
\* link of a query, for every container of Capas.
LinkUnico == [k |-> 1, r |-> 1, t |-> "ADILSON DA SILVA", n |-> 2]

InitExtrator ==
    /\ nomes = <<"ADILSON DA SILVA">>
    /\ idx = 1
    /\ pc = "divs"
    /\ sessao = "aberta"
    /\ doc = Destino(LinkUnico, 1, "0001")
    /\ resultados = DictVazio
    /\ processos = <<>>
    /\ links = <<LinkUnico>>
    /\ li = 1
    /\ tabela = [doc |-> LinkUnico, tipo |-> "tabela", texto |-> "", href |-> NenhumDoc]
    /\ linhas = 1
    /\ lin = 2
    /\ celulas = [doc |-> LinkUnico, tipo |-> "ancora", texto |-> "0001",
                  href |-> Destino(LinkUnico, 1, "0001")]
    /\ processo_info = DictVazio
    /\ divs \in Capas
    /\ di = 1
    /\ dados_saida = DadosNenhum
    /\ origem = <<>>
    /\ vistas = <<>>
    /\ sinal = "tabela"
    /\ falhas = 0
    /\ sinais = DictVazio
    /\ proveniencia = DictVazio
    /\ anterior = DictVazio
    /\ tentados = <<"ADILSON DA SILVA">>
    /\ interrompido = FALSE
    /\ saida = "nenhuma"
    /\ quits = 0

NextExtrator == ExtrairBloco \/ AnexarProcesso

SpecExtrator == InitExtrator /\ [][NextExtrator]_vars

\* ==================================================================== claims
Range(f) == {f[x] : x \in DOMAIN f}

RECURSIVE SomaTamanhos(_, _)
SomaTamanhos(res, S) ==
    IF S = {} THEN 0
    ELSE LET n == CHOOSE x \in S : TRUE
         IN Len(res[n]) + SomaTamanhos(res, S \ {n})

\* The positions of the rows of tab whose anchor text is n.
Casam(tab, n) == {p \in 1..Len(tab) : tab[p].tipo = "ancora" /\ tab[p].texto = n}

\* The i-th smallest position of S.
Posicao(S, i) == CHOOSE p \in S : Cardinality({q \in S : q <= p}) = i

\* C1: after processar_todos_nomes has run over nomes, the keys of
\* self.resultados are exactly the names of the list, a name whose search
\* failed included.
C1_ChavesSaoOsNomes ==
    pc = "salvar" => DOMAIN resultados = Range(nomes)

\* C2: when extrair_dados_processos returns, every matched link has been
\* tried, also those after a link whose extraction raised, and each link
\* that did not raise has its record: the records and the links that raised
\* are together as many as the links.
C2_UmRegistroPorLinkSemFalha ==
    (pc = "retorno" /\ sinal = "tabela") => Len(processos) + falhas = Len(links)

\* C3: in the document salvar_resultados builds, total_processos is the sum
\* of the lengths of the lists of self.resultados and processos is
\* self.resultados.
C3_TotalSomaOsRegistros ==
    dados_saida.salvo =>
        /\ dados_saida.total_processos = SomaTamanhos(resultados, DOMAIN resultados)
        /\ dados_saida.processos = resultados

DoLink(o, l, k, n) ==
    /\ l.n = 2 /\ l.k = k /\ l.t = n
    /\ o = [l EXCEPT !.n = 3]

C5_RegistrosVemDosLinks ==
    /\ pc = "detalhe" => (tabela.doc = links[li] /\ doc = links[li])
    /\ pc \in {"capa", "divs"} => (celulas.doc = links[li] /\ doc = [links[li] EXCEPT !.n = 3])
    /\ Len(origem) = Len(processos)
    /\ \A i \in 1..Len(processos) : DoLink(origem[i], links[i], idx, nome)
    /\ \A n \in DOMAIN resultados :
          /\ Len(proveniencia[n]) = Len(resultados[n])
          /\ \A i \in 1..Len(resultados[n]) :
                LET o == proveniencia[n][i]
                IN /\ o.n = 3 /\ o.t = n /\ o.k \in 1..Len(nomes) /\ nomes[o.k] = n
                   /\ o.k = proveniencia[n][1].k

C5_Witness ==
    \E n \in DOMAIN resultados : Len(resultados[n]) = 2

\* C6: a record is appended only complete: every record of the list being
\* built and of self.resultados is the record of all the blocks of the case
\* page it was read from, also after an exception in the middle of a scan.
C6_RegistrosCompletos ==
    /\ \A i \in 1..Len(processos) :
          processos[i] = ExtrairCapa(DictVazio, CapaDe(origem[i]))
    /\ \A n \in DOMAIN resultados : \A i \in 1..Len(resultados[n]) :
          resultados[n][i] = ExtrairCapa(DictVazio, CapaDe(proveniencia[n][i]))

C6_Witness ==
    /\ pc = "retorno"
    /\ falhas = 1
    /\ di = 2
    /\ Len(divs) >= 2
    /\ DOMAIN processo_info = {"Numero"}
    /\ Len(processos) = 1

\* C7: when the results page shows the "no results" label, the session stays
\* on the results page, nothing is extracted, and the list stored under the
\* name is empty.
C7_SemResultadosListaVazia ==
    /\ sinal = "vazio" => (pc = "retorno" /\ doc = DocResultado(idx) /\ processos = <<>>)
    /\ \A n \in DOMAIN resultados : sinais[n] = "vazio" => resultados[n] = <<>>

C7_Witness ==
    \E n \in DOMAIN resultados : sinais[n] = "vazio" /\ resultados[n] = <<>>

\* C8: a row without td, or whose anchor lookup raises, gives no link and
\* does not end the loop: all the rows are enumerated, and a matching row
\* after such a row has its link.
SemLink(l) == l.tipo \in {"cabecalho", "sem_ancora"}

Rotulos(b) == {i \in 1..Len(b) : b[i].tag = "label"}
Spans(b) == {i \in 1..Len(b) : b[i].tag = "span"}
UmParPorBloco(c) ==
    /\ \A j \in 1..Len(c) : Cardinality(Rotulos(c[j])) = 1 /\ Cardinality(Spans(c[j])) = 1
    /\ \A j \in 1..Len(c) : \A m \in 1..Len(c) :
          j # m => c[j][CHOOSE i \in Rotulos(c[j]) : TRUE].text
                   # c[m][CHOOSE i \in Rotulos(c[m]) : TRUE].text
RotuloDe(b) == b[CHOOSE i \in Rotulos(b) : TRUE].text
SpanDe(b) == b[CHOOSE i \in Spans(b) : TRUE].text
RegistroEsperado(c) ==
    [r \in {RotuloDe(c[j]) : j \in 1..Len(c)} |->
        SpanDe(c[CHOOSE j \in 1..Len(c) : RotuloDe(c[j]) = r])]

C9_RegistroDosPares ==
    UmParPorBloco(divs) =>
        /\ (pc = "divs" /\ di > Len(divs)) => processo_info = RegistroEsperado(divs)
        /\ pc = "links" => processos = <<RegistroEsperado(divs)>>

C9_Witness ==
    /\ pc = "links"
    /\ divs = << <<[tag |-> "label", text |-> "Classe"], [tag |-> "span", text |-> "Civel"]>>,
                 <<[tag |-> "label", text |-> "Assunto"], [tag |-> "span", text |-> "Contrato"]>> >>
    /\ processos = <<[c \in {"Classe", "Assunto"} |->
                        IF c = "Classe" THEN "Civel" ELSE "Contrato"]>>

\* C10: a block with the same label twice and two spans gives exactly one
\* entry, under that label, whose value is the text of the last span of the
\* block.
Maior(S) == CHOOSE i \in S : \A j \in S : j <= i
RotuloRepetido(b) ==
    /\ Cardinality(Rotulos(b)) = 2
    /\ Cardinality({b[i].text : i \in Rotulos(b)}) = 1
    /\ Cardinality(Spans(b)) = 2

C10_UltimoValorVence ==
    (Len(divs) = 1 /\ di = 2 /\ RotuloRepetido(divs[1])) =>
        LET b == divs[1]
        IN /\ DOMAIN processo_info = {RotuloDe(b)}
           /\ processo_info[RotuloDe(b)] = b[Maior(Spans(b))].text

C10_Witness ==
    /\ di = 2
    /\ divs = << <<[tag |-> "label", text |-> "Classe"], [tag |-> "span", text |-> "Civel"],
                   [tag |-> "label", text |-> "Classe"], [tag |-> "span", text |-> "Contrato"]>> >>
    /\ processo_info = [c \in {"Classe"} |-> "Contrato"]

\* C11: the step that stores the list returned for a name makes it the whole
\* entry of that name, whatever the entry held before, adds no other key and
\* leaves the entry of every other name as it was; no other step changes
\* resultados.
C11_RegistrarSobrescreve ==
    [][IF pc = "retorno" /\ pc' = "loop"
       THEN /\ DOMAIN resultados' = DOMAIN resultados \cup {nome}
            /\ resultados'[nome] = processos
            /\ \A n \in DOMAIN resultados \ {nome} : resultados'[n] = resultados[n]
       ELSE resultados' = resultados]_vars

\* The same name was stored twice: first with one record, then with two.
C11_Witness ==
    \E n \in DOMAIN anterior :
        /\ Len(anterior[n]) = 1
        /\ Len(resultados[n]) = 2
        /\ pc = "loop"

\* C12: processar_todos_nomes is left only after processar_nome was called
\* with every name of the list, in order, whatever failed on the way: when
\* main is at salvar_resultados, or has left its try block otherwise than
\* by an interruption, with a session, the names tried are the whole list.
C12_FalhaNaoEncerraARodada ==
    /\ tentados = SubSeq(nomes, 1, Len(tentados))
    /\ (pc = "salvar" \/ (saida \in {"normal", "erro"} /\ sessao # "nenhuma")) =>
           tentados = nomes

\* The results page of the first name could not be read, and the second
\* name was searched and has its record.
C12_Witness ==
    /\ pc = "salvar"
    /\ ~interrompido
    /\ Len(nomes) = 2
    /\ nomes[1] # nomes[2]
    /\ nomes[1] \in DOMAIN sinais
    /\ sinais[nomes[1]] = "erro"
    /\ nomes[2] \in DOMAIN resultados
    /\ Len(resultados[nomes[2]]) = 1

\* C13: once a KeyboardInterrupt was raised, main is in its finally block or
\* past it: no step of a search, of a row loop, of an extraction or of
\* salvar_resultados comes after the interruption.
C13_InterrupcaoEncerra ==
    interrompido => pc \in {"fechar", "fim"}

\* C14: the names are taken one at a time in the order of the list, a pass
\* over a name starts only when no pass is under way, the pages the session
\* shows during a pass are pages of that pass, and the links of a pass are
\* loaded in the order of their rows: the page loaded is that of links[li],
\* links is in increasing row order and the i-th record is of the i-th link.
C14_UmNomePorVez ==
    /\ Len(tentados) \in {idx - 1, idx}
    /\ \A i \in 1..Len(tentados) : tentados[i] = nomes[i]
    /\ pc \in {"loop", "busca"} => (links = <<>> /\ processos = <<>> /\ li = 1)
    /\ pc = "loop" => Len(tentados) = idx - 1
    /\ pc \in {"busca", "extrair", "linhas", "links", "tabela", "detalhe", "processo",
               "capa", "divs", "retorno"} => Len(tentados) = idx
    /\ pc \in {"extrair", "linhas", "links", "tabela", "detalhe", "processo", "capa",
               "divs", "retorno"} => doc.k = idx
    /\ pc \in {"tabela", "detalhe", "processo"} => doc = links[li]
    /\ pc \in {"capa", "divs"} => doc.r = links[li].r
    /\ \A i, j \in 1..Len(links) : i < j => links[i].r < links[j].r
    /\ \A i \in 1..Len(origem) : origem[i].r = links[i].r

\* The second link of the second name is on screen, after the record of the
\* first link and the whole pass of the first name.
C14_Witness ==
    /\ idx = 2
    /\ nomes[1] \in DOMAIN resultados
    /\ pc = "tabela"
    /\ li = 2
    /\ doc = links[2]
    /\ Len(processos) = 1

\* C15: in the document salvar_resultados wrote, nomes_consultados is the
\* list processar_todos_nomes was called with, and its names are the keys
\* of processos.
C15_NomesConsultadosSaoOsSubmetidos ==
    dados_saida.salvo =>
        /\ dados_saida.nomes_consultados = nomes
        /\ Range(dados_saida.nomes_consultados) = DOMAIN dados_saida.processos

\* C16: when the results page has neither the "no results" label nor the
\* table, extrair_dados_processos returns the empty list at once: the
\* session is still on the results page, no link was collected, nothing
\* raised, and the entry stored for the name is the empty list.
C16_SemTabelaListaVazia ==
    /\ sinal = "sem_tabela" =>
           /\ pc = "retorno"
           /\ doc = DocResultado(idx)
           /\ links = <<>>
           /\ processos = <<>>
           /\ falhas = 0
    /\ \A n \in DOMAIN sinais :
           sinais[n] = "sem_tabela" => (n \in DOMAIN resultados /\ resultados[n] = <<>>)

\* A name whose results page had neither was stored.
C16_Witness ==
    /\ pc = "loop"
    /\ idx = 2
    /\ nomes[1] \in DOMAIN sinais
    /\ sinais[nomes[1]] = "sem_tabela"
    /\ resultados[nomes[1]] = <<>>
    /\ doc = DocResultado(1)

\* C17: a block without label is stored under the key "" with the text of
\* its last span ("" when it has none), and the blocks after it are stored
\* as well: every block handled so far has its key in the record, and the
\* value under a key is that of the last block handled with that key.
ChaveDe(b) == IF Rotulos(b) = {} THEN "" ELSE b[Maior(Rotulos(b))].text
ValorDe(b) == IF Spans(b) = {} THEN "" ELSE b[Maior(Spans(b))].text
SemRotulo(c, ate) == {j \in 1..ate : Rotulos(c[j]) = {}}

C17_BlocoSemRotulo ==
    (pc \in {"divs", "links"} /\ SemRotulo(divs, di - 1) # {}) =>
        /\ "" \in DOMAIN processo_info
        /\ processo_info[""] = ValorDe(divs[Maior(SemRotulo(divs, di - 1))])
        /\ \A j \in 1..(di - 1) :
              /\ ChaveDe(divs[j]) \in DOMAIN processo_info
              /\ (\A m \in (j + 1)..(di - 1) : ChaveDe(divs[m]) # ChaveDe(divs[j])) =>
                     processo_info[ChaveDe(divs[j])] = ValorDe(divs[j])
        /\ pc = "links" => processos = <<processo_info>>

\* A block with a span only, then a block with its label: both are in the
\* record that was appended.
C17_Witness ==
    /\ pc = "links"
    /\ divs = << <<[tag |-> "span", text |-> "Civel"]>>,
                 <<[tag |-> "label", text |-> "Classe"], [tag |-> "span", text |-> "Contrato"]>> >>
    /\ processos = <<[c \in {"", "Classe"} |-> IF c = "" THEN "Civel" ELSE "Contrato"]>>

\* C18: at every point of extrair_dados_processos, its return included, the
\* records are at most as many as the links collected, no two records were
\* read through the same link, and without links there is no record; the
\* lists stored have no two records of the same link either.
C18_RegistrosNaoExcedemLinks ==
    /\ Len(processos) <= Len(links)
    /\ Len(origem) = Len(processos)
    /\ \A i \in 1..Len(origem) : \E j \in 1..Len(links) : origem[i].r = links[j].r
    /\ \A i, j \in 1..Len(origem) : i # j => origem[i].r # origem[j].r
    /\ \A n \in DOMAIN resultados :
          /\ Len(resultados[n]) = Len(proveniencia[n])
          /\ \A i, j \in 1..Len(proveniencia[n]) :
                i # j => proveniencia[n][i].r # proveniencia[n][j].r

\* The function returns with two links and the record of each.
C18_Witness ==
    /\ pc = "retorno"
    /\ Len(links) = 2
    /\ Len(processos) = 2
    /\ falhas = 0

\* C19: when main has ended and a browser session was started, the session
\* is closed and driver.quit() was called exactly once; and once the session
\* is closed main has ended, so nothing is loaded on it afterwards.
C19_SessaoFechadaUmaVez ==
    /\ (pc = "fim" /\ sessao # "nenhuma") => (sessao = "fechada" /\ quits = 1)
    /\ sessao = "fechada" => pc = "fim"
    /\ quits <= 1

====
